---- MODULE Spec2Model ----
(***************************************************************************)
(* Valuation and snapshot engine of simple-finance.                        *)
(*                                                                         *)
(* Representation of numbers.  Money is an integer number of cents, an     *)
(* exchange rate an integer number of hundredths (0.92 is 92), a quantity  *)
(* an integer number of 1/QtyScale units, an instant an integer number of  *)
(* ticks with TicksPerDay ticks in a calendar day.  The initial investment *)
(* of a custom product is a number the code never rounds: it is an integer *)
(* number of 1/CentScale cents.  Arithmetic is exact: the binary floating  *)
(* point error of the JavaScript numbers is not modelled.                  *)
(***************************************************************************)
EXTENDS Integers, Sequences, FiniteSets, TLC

VARIABLES
  now,        \* the wall clock, in ticks (new Date())
  cronToken,  \* process.env.CRON_TOKEN
  store,      \* the product table read by findAllProducts: a sequence of products
  snapshots,  \* the portfolio_snapshots table: a set of rows [id, date, value]
  nextId,     \* the next row id the database hands out
  inv,        \* the invocations of POST /api/cron/snapshot, one record each
  call,       \* the last call of a service called on its own, and its result
  password,   \* process.env.PASSWORD, "" when it is not set
  cookie,     \* the cookie simple-finance-auth of the browser
  submitted,  \* the passwords submitted to authenticateWithPassword so far
  loading,    \* the state `loading` of the useYahooFinance hook
  error,      \* the state `error` of the hook
  fetches     \* the fetchQuote calls of the hook, one record each

\* The state of the password protection and the state of the hook.
authVars == <<password, cookie, submitted>>
hookVars == <<loading, error, fetches>>

vars == <<now, cronToken, store, snapshots, nextId, inv, call, authVars, hookVars>>

-----------------------------------------------------------------------------
(* Bounds of the model *)

TicksPerDay == 2
MaxNow == 2
QtyScale == 2
MaxProducts == 2
NumInvocations == 2
CentScale == 10
MaxInstant == 5
\* The dashboard, scaled down: EvolutionDays stands for the 30 of
\* snapshots.slice(-30), HistoryDays for the 365 of
\* getPortfolioSnapshotsLastNDays(365); a month has DaysPerMonth days, a year
\* MonthsPerYear months; LastDay is the day the dashboard is rendered.
EvolutionDays == 2
HistoryDays == 4
DaysPerMonth == 2
MonthsPerYear == 2
LastDay == 5
\* The passwords a session submits and the fetchQuote calls of a hook.
MaxAttempts == 2
NumFetches == 2

-----------------------------------------------------------------------------
(* Numbers *)

\* Math.round(n / d) for d > 0: the nearest integer, a tie going to +infinity.
MathRound(n, d) == (2 * n + d) \div (2 * d)

\* The calendar date (a day number) of an instant; setHours(0, 0, 0, 0) and the
\* DATE column both drop the time of day.
DateOf(t) == t \div TicksPerDay

\* The instant at which a calendar date starts.
StartOfDate(d) == d * TicksPerDay

-----------------------------------------------------------------------------
(* Exchange rate client: exchange-rate-client.ts *)

NoRate == [some |-> FALSE, from |-> "", to |-> "", rate |-> 0, timestamp |-> 0]

ExchangeRate(r, ts) ==
  [some |-> TRUE, from |-> "USD", to |-> "EUR", rate |-> r, timestamp |-> ts]

\* What one HTTP exchange with the rate provider can do: the fetch or the JSON
\* parse throws, the response is not OK, the body has no rates, or the body has
\* rates with rates.EUR = eur (a falsy 0 counts as missing) and
\* time_last_updated = time.
RateResponses ==
  [kind : {"throws", "notOk", "noRates"}, eur : {0}, time : {0}]
    \cup [kind : {"ok"}, eur : {0, 90, 95}, time : 0 .. MaxNow]

\* The result of a call: the value returned or the fact that it threw, and the
\* provider endpoints it fetched, in order.
Returned(v, cs) == [threw |-> FALSE, value |-> v, calls |-> cs]
Thrown(cs) == [threw |-> TRUE, value |-> NoRate, calls |-> cs]

\* The try block of fetchUsdToEurRate.
fetchUsdToEurRateTry(cur) ==
  IF cur.kind = "throws" THEN Thrown(<<"latest">>)
  ELSE IF cur.kind = "notOk" THEN Returned(NoRate, <<"latest">>)
  ELSE IF cur.kind = "noRates" \/ cur.eur = 0 THEN Returned(NoRate, <<"latest">>)
  ELSE Returned(ExchangeRate(cur.eur, cur.time), <<"latest">>)

\* The fetch without its catch block: what the try block throws gets out.
fetchUsdToEurRateNoCatch(cur) == fetchUsdToEurRateTry(cur)

\* The fetch that tries a second time when the first attempt threw.
fetchUsdToEurRateRetrying(cur) ==
  LET r == fetchUsdToEurRateTry(cur)
      again == fetchUsdToEurRateTry(cur)
  IN  IF r.threw
        THEN Returned(IF again.threw THEN NoRate ELSE again.value,
                      r.calls \o again.calls)
        ELSE r

fetchUsdToEurRate(cur) ==
  LET r == fetchUsdToEurRateTry(cur)
  IN  IF r.threw THEN Returned(NoRate, r.calls) ELSE r

\* The historical fetch that gives up with null instead of asking for the
\* current rate.
fetchHistoricalNoCurrent(date, hist, cur) ==
  IF hist.kind = "ok" /\ hist.eur # 0
    THEN Returned(ExchangeRate(hist.eur, StartOfDate(DateOf(date))), <<"history">>)
    ELSE Returned(NoRate, <<"history">>)

\* dateStr is the calendar date of `date`; the rate found is stamped with
\* new Date(dateStr).  Every failure of the historical endpoint ends in a call
\* of fetchUsdToEurRate.
fetchHistoricalUsdToEurRate(date, hist, cur) ==
  LET again == fetchUsdToEurRate(cur)
      fallback == [again EXCEPT !.calls = <<"history">> \o again.calls]
  IN  IF hist.kind = "throws" THEN fallback
      ELSE IF hist.kind = "notOk" THEN fallback
      ELSE IF hist.kind = "noRates" \/ hist.eur = 0 THEN fallback
      ELSE Returned(ExchangeRate(hist.eur, StartOfDate(DateOf(date))),
                    <<"history">>)

\* Math.round(usdAmount * rate * 100) / 100, in cents and hundredths.
convertUsdToEur(usdAmount, rate) == MathRound(usdAmount * rate, 100)

-----------------------------------------------------------------------------
(* Currency converter: currency-converter.ts *)

FALLBACK_USD_TO_EUR_RATE == 92

\* A result carrying a number instead of an exchange rate.
ReturnedAmount(v, cs) == [threw |-> FALSE, value |-> v, calls |-> cs]
ThrownAmount(cs) == [threw |-> TRUE, value |-> 0, calls |-> cs]

\* exchangeRate?.rate ?? FALLBACK_USD_TO_EUR_RATE
RateOrFallback(exchangeRate) ==
  IF exchangeRate.some THEN exchangeRate.rate ELSE FALLBACK_USD_TO_EUR_RATE

convertToEur(usdAmount, cur) ==
  LET r == fetchUsdToEurRate(cur)
  IN  IF r.threw THEN ThrownAmount(r.calls)
      ELSE ReturnedAmount(convertUsdToEur(usdAmount, RateOrFallback(r.value)),
                          r.calls)

convertToEurHistorical(usdAmount, date, hist, cur) ==
  LET r == fetchHistoricalUsdToEurRate(date, hist, cur)
  IN  IF r.threw THEN ThrownAmount(r.calls)
      ELSE ReturnedAmount(convertUsdToEur(usdAmount, RateOrFallback(r.value)),
                          r.calls)

getCurrentExchangeRate(cur, at) ==
  LET r == fetchUsdToEurRate(cur)
  IN  IF r.threw THEN r
      ELSE IF r.value.some THEN r
      ELSE Returned(ExchangeRate(FALLBACK_USD_TO_EUR_RATE, at), r.calls)

\* The historical getter that passes null on instead of building a tuple.
getHistoricalExchangeRateNoTuple(date, hist, cur) ==
  fetchHistoricalUsdToEurRate(date, hist, cur)

getHistoricalExchangeRate(date, hist, cur) ==
  LET r == fetchHistoricalUsdToEurRate(date, hist, cur)
  IN  IF r.threw THEN r
      ELSE IF r.value.some THEN r
      ELSE Returned(ExchangeRate(FALLBACK_USD_TO_EUR_RATE, date), r.calls)

-----------------------------------------------------------------------------
(* Fixed-rate valuator: custom-product-calculator.ts *)

RECURSIVE Pow(_, _)
Pow(b, e) == IF e = 0 THEN 1 ELSE b * Pow(b, e - 1)

\* date-fns differenceInDays: the number of full days between two instants,
\* truncated towards zero.
differenceInDays(later, earlier) ==
  LET d == later - earlier
  IN  IF d >= 0 THEN d \div TicksPerDay ELSE -((-d) \div TicksPerDay)

Value(v) == [threw |-> FALSE, value |-> v, error |-> ""]
Error(msg) == [threw |-> TRUE, value |-> 0, error |-> msg]

\* The valuator that repairs its input instead of refusing it: a principal
\* that is not positive counts as its absolute value, a rate below -100% as
\* -100%.
calculateCustomProductValueRepairing(initialInvestmentEur, annualReturnRate, investmentDate, currentDate) ==
  LET daysSinceInvestment == differenceInDays(currentDate, investmentDate)
      principal == IF initialInvestmentEur < 0 THEN -initialInvestmentEur
                   ELSE initialInvestmentEur
      rate == IF annualReturnRate < -2 THEN -2 ELSE annualReturnRate
  IN  IF daysSinceInvestment < 0
        THEN Error("Investment date cannot be in the future")
      ELSE Value(MathRound(
             principal * Pow(365 * 2 + rate, daysSinceInvestment),
             CentScale * Pow(365 * 2, daysSinceInvestment)))

\* The valuator that counts the day of the investment as a day of interest.
calculateCustomProductValueInclusive(initialInvestmentEur, annualReturnRate, investmentDate, currentDate) ==
  LET daysSinceInvestment == differenceInDays(currentDate, investmentDate)
  IN  IF initialInvestmentEur <= 0
        THEN Error("Initial investment must be positive")
      ELSE IF annualReturnRate < -2
        THEN Error("Annual return rate cannot be less than -100%")
      ELSE IF daysSinceInvestment < 0
        THEN Error("Investment date cannot be in the future")
      ELSE Value(MathRound(
             initialInvestmentEur
               * Pow(365 * 2 + annualReturnRate, daysSinceInvestment + 1),
             CentScale * Pow(365 * 2, daysSinceInvestment + 1)))

\* Lines 21-47, the asynchronous variant.  initialInvestmentEur is a number
\* of 1/CentScale cents and the value returned a number of cents:
\* Math.round(currentValueEur * 100) / 100.  annualReturnRate is a number of
\* halves (2 is 100%, -2 is -100%), so that 1 + annualReturnRate / 365 is
\* (730 + annualReturnRate) / 730.
calculateCustomProductValue(initialInvestmentEur, annualReturnRate, investmentDate, currentDate) ==
  LET daysSinceInvestment == differenceInDays(currentDate, investmentDate)
  IN  IF initialInvestmentEur <= 0
        THEN Error("Initial investment must be positive")
      ELSE IF annualReturnRate < -2
        THEN Error("Annual return rate cannot be less than -100%")
      ELSE IF daysSinceInvestment < 0
        THEN Error("Investment date cannot be in the future")
      ELSE Value(MathRound(
             initialInvestmentEur
               * Pow(365 * 2 + annualReturnRate, daysSinceInvestment),
             CentScale * Pow(365 * 2, daysSinceInvestment)))

\* The synchronous variant with simple interest: 1 + days * dailyRate instead
\* of (1 + dailyRate) ^ days.
calculateCustomProductValueSyncSimple(initialInvestmentEur, annualReturnRate, investmentDate, currentDate) ==
  LET daysSinceInvestment == differenceInDays(currentDate, investmentDate)
  IN  IF initialInvestmentEur <= 0
        THEN Error("Initial investment must be positive")
      ELSE IF annualReturnRate < -2
        THEN Error("Annual return rate cannot be less than -100%")
      ELSE IF daysSinceInvestment < 0
        THEN Error("Investment date cannot be in the future")
      ELSE Value(MathRound(
             initialInvestmentEur
               * (365 * 2 + daysSinceInvestment * annualReturnRate),
             CentScale * 365 * 2))

\* The synchronous variant that compounds the rate with the wrong sign.
calculateCustomProductValueSyncInverted(initialInvestmentEur, annualReturnRate, investmentDate, currentDate) ==
  LET daysSinceInvestment == differenceInDays(currentDate, investmentDate)
  IN  IF initialInvestmentEur <= 0
        THEN Error("Initial investment must be positive")
      ELSE IF annualReturnRate < -2
        THEN Error("Annual return rate cannot be less than -100%")
      ELSE IF daysSinceInvestment < 0
        THEN Error("Investment date cannot be in the future")
      ELSE Value(MathRound(
             initialInvestmentEur
               * Pow(365 * 2 - annualReturnRate, daysSinceInvestment),
             CentScale * Pow(365 * 2, daysSinceInvestment)))

\* Lines 60-86, the synchronous variant.
calculateCustomProductValueSync(initialInvestmentEur, annualReturnRate, investmentDate, currentDate) ==
  LET daysSinceInvestment == differenceInDays(currentDate, investmentDate)
  IN  IF initialInvestmentEur <= 0
        THEN Error("Initial investment must be positive")
      ELSE IF annualReturnRate < -2
        THEN Error("Annual return rate cannot be less than -100%")
      ELSE IF daysSinceInvestment < 0
        THEN Error("Investment date cannot be in the future")
      ELSE LET dailyGrowth == 365 * 2 + annualReturnRate
               currentValue ==
                 initialInvestmentEur * Pow(dailyGrowth, daysSinceInvestment)
           IN  Value(MathRound(currentValue,
                               CentScale * Pow(365 * 2, daysSinceInvestment)))

-----------------------------------------------------------------------------
(* Market quote resolver: yahoo-finance/server-client.ts *)

NoQuote == [some |-> FALSE, regularMarketPrice |-> 0, originalCurrency |-> ""]

\* What yahooFinance.quote(symbol) can do: throw, return nothing usable (no
\* quote, or a quote without regularMarketPrice), or return a price with a
\* currency ("" is a quote without currency).
QuoteResponses ==
  [kind : {"throws", "noPrice"}, price : {0}, currency : {""}]
    \cup [kind : {"ok"}, price : {500}, currency : {"EUR", "USD", "GBP", ""}]
    \cup [kind : {"ok"}, price : {0}, currency : {"EUR"}]

\* The result of the resolver: the quote or null, and how many calls it made
\* of the market-data provider and of the rate provider.
Resolved(q, nq, cs) ==
  [threw |-> FALSE, quote |-> q, quoteCalls |-> nq, rateCalls |-> Len(cs)]

\* A resolver whose promise rejects.
Rejected(nq, cs) ==
  [threw |-> TRUE, quote |-> NoQuote, quoteCalls |-> nq, rateCalls |-> Len(cs)]

\* !symbol || symbol.trim().length === 0
IsBlank(symbol) == symbol = "" \/ symbol = " "

\* The conversion of lines 53-64 and the quote built in lines 66-77.
ConvertedQuote(resp, cur) ==
  LET originalCurrency == IF resp.currency = "" THEN "USD" ELSE resp.currency
  IN  IF originalCurrency = "EUR"
        THEN Resolved([some |-> TRUE, regularMarketPrice |-> resp.price,
                       originalCurrency |-> originalCurrency], 1, <<>>)
        ELSE LET c == convertToEur(resp.price, cur)
             IN  IF c.threw THEN Resolved(NoQuote, 1, c.calls)
                 ELSE Resolved([some |-> TRUE,
                                regularMarketPrice |-> c.value,
                                originalCurrency |-> originalCurrency],
                               1, c.calls)

\* The resolver without its guard and without its catch block: a blank
\* symbol is sent to the provider, and what the provider throws gets out.
fetchYahooQuoteServerUnguarded(symbol, resp, cur) ==
  IF resp.kind = "throws" THEN Rejected(1, <<>>)
  ELSE IF resp.kind = "noPrice" THEN Resolved(NoQuote, 1, <<>>)
  ELSE ConvertedQuote(resp, cur)

\* The resolver that converts a price only when the provider names USD: a
\* price in another currency or without currency passes through unchanged.
fetchYahooQuoteServerUsdOnly(symbol, resp, cur) ==
  IF IsBlank(symbol) THEN Resolved(NoQuote, 0, <<>>)
  ELSE IF resp.kind = "throws" THEN Resolved(NoQuote, 1, <<>>)
  ELSE IF resp.kind = "noPrice" THEN Resolved(NoQuote, 1, <<>>)
  ELSE IF resp.currency = "USD" THEN ConvertedQuote(resp, cur)
  ELSE Resolved([some |-> TRUE, regularMarketPrice |-> resp.price,
                 originalCurrency |->
                   IF resp.currency = "" THEN "USD" ELSE resp.currency],
                1, <<>>)

\* Lines 37-82.
fetchYahooQuoteServer(symbol, resp, cur) ==
  IF IsBlank(symbol) THEN Resolved(NoQuote, 0, <<>>)
  ELSE IF resp.kind = "throws" THEN Resolved(NoQuote, 1, <<>>)
  ELSE IF resp.kind = "noPrice" THEN Resolved(NoQuote, 1, <<>>)
  ELSE ConvertedQuote(resp, cur)

-----------------------------------------------------------------------------
(* Portfolio statistics: portfolio-statistics.ts *)

\* A price looked up in the currentPrices map: absent is undefined.
NoPrice == [has |-> FALSE, price |-> 0]
Price(p) == [has |-> TRUE, price |-> p]

\* The value of a product: currentValue and initialInvestment are products of
\* an amount and a quantity that the code does not round, numbers of
\* 1/(CentScale * QtyScale) cents.
ProductValue(cv, ii) ==
  [threw |-> FALSE, currentValue |-> cv, initialInvestment |-> ii, error |-> ""]
ProductError(msg) ==
  [threw |-> TRUE, currentValue |-> 0, initialInvestment |-> 0, error |-> msg]

\* Lines 33-63.  !currentPrice is true of undefined and of 0; a price and the
\* value of a custom product are numbers of cents.  The custom product is
\* valued at the default currentDate, the present instant.
calculateProductValue(product, currentPrice, currentDate) ==
  IF product.type = "YAHOO_FINANCE"
    THEN IF ~currentPrice.has \/ currentPrice.price = 0
           THEN ProductError("Current price required for Yahoo Finance products")
           ELSE ProductValue(currentPrice.price * CentScale * product.quantity, 0)
    ELSE LET v == calculateCustomProductValue(product.initialInvestment,
                    product.annualReturnRate, product.investmentDate, currentDate)
         IN  IF v.threw THEN ProductError(v.error)
             ELSE ProductValue(v.value * CentScale * product.quantity,
                               product.initialInvestment * product.quantity)

RECURSIVE SumOver(_, _, _)
\* The aggregation loop: the sum of f[i] for i in 1 .. n, f a sequence of
\* numbers.
SumOver(f, i, n) == IF i > n THEN 0 ELSE f[i] + SumOver(f, i + 1, n)

\* Math.round(x * 100) / 100 of an unrounded amount: a number of cents.
RoundToCents(x) == MathRound(x, CentScale * QtyScale)

\* The aggregation with the percentage taken of the total value.
aggregateValuesOverValue(productValues) ==
  LET n == Len(productValues)
      totalValue == SumOver([i \in 1 .. n |-> productValues[i].currentValue], 1, n)
      totalInvestment ==
        SumOver([i \in 1 .. n |-> productValues[i].initialInvestment], 1, n)
      totalReturn == totalValue - totalInvestment
  IN  [totalValue |-> RoundToCents(totalValue),
       totalInvestment |-> RoundToCents(totalInvestment),
       totalReturn |-> RoundToCents(totalReturn),
       totalReturnPercentage |->
         IF totalValue > 0
           THEN MathRound(totalReturn * 100 * 100, totalValue)
           ELSE 0,
       productCount |-> n]

\* The part of calculatePortfolioStatistics after Promise.all: productValues
\* is the sequence of resolved values.  Money is rounded to cents, the
\* percentage to hundredths of a percent.
aggregateValues(productValues) ==
  LET n == Len(productValues)
      totalValue == SumOver([i \in 1 .. n |-> productValues[i].currentValue], 1, n)
      totalInvestment ==
        SumOver([i \in 1 .. n |-> productValues[i].initialInvestment], 1, n)
      totalReturn == totalValue - totalInvestment
  IN  [totalValue |-> RoundToCents(totalValue),
       totalInvestment |-> RoundToCents(totalInvestment),
       totalReturn |-> RoundToCents(totalReturn),
       totalReturnPercentage |->
         IF totalInvestment > 0
           THEN MathRound(totalReturn * 100 * 100, totalInvestment)
           ELSE 0,
       productCount |-> n]

\* The result of calculatePortfolioStatistics: the statistics, or the fact
\* that the promise rejected.
Statistics(st) == [threw |-> FALSE, stats |-> st]
StatisticsError == [threw |-> TRUE, stats |-> aggregateValues(<<>>)]

\* Lines 74-125 as one call, without previousDayValues: the price of a
\* product is the entry of currentPrices of its position, Promise.all rejects
\* when a valuation rejects.
calculatePortfolioStatistics(products, currentPrices, currentDate) ==
  LET n == Len(products)
      productValues ==
        [k \in 1 .. n |->
           calculateProductValue(products[k],
             IF products[k].type = "YAHOO_FINANCE" THEN currentPrices[k] ELSE NoPrice,
             currentDate)]
  IN  IF \E k \in 1 .. n : productValues[k].threw THEN StatisticsError
      ELSE Statistics(aggregateValues(productValues))

-----------------------------------------------------------------------------
(* Profit rates: profit-rate-calculator (part_012)                           *)

\* A custom product as the calculator reads it: the product with the
\* currency recorded in its custom part.  A market-tracked product has no
\* custom part; its currency field is empty.
WithCurrency(product, currency) ==
  [type |-> product.type, quantity |-> product.quantity,
   symbol |-> product.symbol, purchasePrice |-> product.purchasePrice,
   initialInvestment |-> product.initialInvestment,
   annualReturnRate |-> product.annualReturnRate,
   investmentDate |-> product.investmentDate, currency |-> currency]

\* A profit per day is an unrounded quotient by 365 of investment x quantity
\* x rate: a number of 1/ProfitScale cents (investment in 1/CentScale cents,
\* quantity in 1/QtyScale, rate in halves).
ProfitScale == CentScale * QtyScale * 2 * 365

\* Lines 31-40.
calculateDailyProfit(initialInvestmentEur, annualReturnRate, quantity) ==
  initialInvestmentEur * quantity * annualReturnRate

\* Lines 13-20: the fields of the result, in cents.
ProfitRates(d, w, m) == [daily |-> d, weekly |-> w, monthly |-> m]

\* products.filter((p) => p.type === 'CUSTOM')
IsCustom(p) == p.type = "CUSTOM"
customProducts(products) == SelectSeq(products, IsCustom)

\* Lines 79-84 and 117-121: Math.round(totalDailyProfit * k * 100) / 100.
RoundedRates(totalDailyProfit) ==
  ProfitRates(MathRound(totalDailyProfit, ProfitScale),
              MathRound(totalDailyProfit * 7, ProfitScale),
              MathRound(totalDailyProfit * 30, ProfitScale))

\* Lines 93-122.
calculateProfitRatesSync(products) ==
  LET cs == customProducts(products)
      n == Len(cs)
      totalDailyProfit ==
        SumOver([i \in 1 .. n |->
                   calculateDailyProfit(cs[i].initialInvestment,
                     cs[i].annualReturnRate, cs[i].quantity)], 1, n)
  IN  IF n = 0 THEN ProfitRates(0, 0, 0)
      ELSE RoundedRates(totalDailyProfit)

\* Lines 63-68: the investment of a product recorded in USD goes through
\* convertToEur, which takes and returns numbers of cents; curs[i] is what
\* the rate provider answers to the fetch made for the product.  The
\* investment of such a product is a whole number of cents, the output of
\* the conversion made when it was created.
investmentEur(product, cur) ==
  IF product.currency = "USD"
    THEN LET c == convertToEur(product.initialInvestment \div CentScale, cur)
         IN  [threw |-> c.threw, value |-> c.value * CentScale]
    ELSE [threw |-> FALSE, value |-> product.initialInvestment]

\* Lines 49-85: the promise rejects when a conversion rejects.
calculateProfitRates(products, curs) ==
  LET idx == SelectSeq([i \in 1 .. Len(products) |-> i],
                       LAMBDA i : IsCustom(products[i]))
      n == Len(idx)
      inv_ == [i \in 1 .. n |-> investmentEur(products[idx[i]], curs[idx[i]])]
      totalDailyProfit ==
        SumOver([i \in 1 .. n |->
                   calculateDailyProfit(inv_[i].value,
                     products[idx[i]].annualReturnRate,
                     products[idx[i]].quantity)], 1, n)
  IN  IF n = 0 THEN [threw |-> FALSE, rates |-> ProfitRates(0, 0, 0)]
      ELSE IF \E i \in 1 .. n : inv_[i].threw
        THEN [threw |-> TRUE, rates |-> ProfitRates(0, 0, 0)]
      ELSE [threw |-> FALSE, rates |-> RoundedRates(totalDailyProfit)]

-----------------------------------------------------------------------------
(* Snapshot store: portfolio-snapshot-repository.ts, and the unique index    *)
(* portfolio_snapshots_date_key of the migration                             *)

HasSnapshot(table, date) == \E r \in table : r.date = date

\* prisma.portfolioSnapshot.create without the unique index: a row is added
\* whatever the table holds.
insertPortfolioSnapshot(table, date, value, id) ==
  table \cup {[id |-> id, date |-> date, value |-> value]}

\* An upsert that does not look at the date: it updates whatever rows the
\* table holds and creates a row only in an empty table.
upsertUpdatingEveryRow(table, date, value, id) ==
  IF table # {}
    THEN {[r EXCEPT !.value = value] : r \in table}
    ELSE table \cup {[id |-> id, date |-> date, value |-> value]}

\* prisma.portfolioSnapshot.upsert({where: {date}, update: {value},
\* create: {date, value}}): one atomic statement of the database.
upsertPortfolioSnapshot(table, date, value, id) ==
  IF HasSnapshot(table, date)
    THEN {IF r.date = date THEN [r EXCEPT !.value = value] ELSE r : r \in table}
    ELSE table \cup {[id |-> id, date |-> date, value |-> value]}

RECURSIVE SortByDate(_)
\* orderBy: {date: 'asc'}: the rows of a set as a sequence, by date; the
\* unique index leaves no two rows with one date.
SortByDate(rows) ==
  IF rows = {} THEN <<>>
  ELSE LET first == CHOOSE r \in rows : \A o \in rows : r.date <= o.date
       IN  <<first>> \o SortByDate(rows \ {first})

\* Lines 45-61: startDate is the instant `days` days before now, time of day
\* kept; a row is selected when its date, the instant at which the day
\* starts, is not before startDate.
getPortfolioSnapshotsLastNDays(table, days, at) ==
  LET startDate == at - days * TicksPerDay
  IN  SortByDate({r \in table : StartOfDate(r.date) >= startDate})

-----------------------------------------------------------------------------
(* The series of the dashboard: app/dashboard/page.tsx, lines 67-100         *)

\* Array.prototype.slice(-k): the last k elements, all of them if fewer.
SliceLast(s, k) ==
  IF Len(s) <= k THEN s ELSE SubSeq(s, Len(s) - k + 1, Len(s))

\* Lines 71-74.  The date of a point is the calendar date of the row.
evolutionData(snaps) ==
  LET last == SliceLast(snaps, EvolutionDays)
  IN  [i \in 1 .. Len(last) |-> [date |-> last[i].date, value |-> last[i].value]]

\* Line 80: the key YYYY-MM of a date, as the pair of its year and its month
\* (1 .. MonthsPerYear), the server's clock being on UTC.
monthKey(date) ==
  LET m == date \div DaysPerMonth
  IN  <<m \div MonthsPerYear, (m % MonthsPerYear) + 1>>

\* a.localeCompare(b) < 0 of two keys: the year and the month are padded to
\* a fixed width, so the order of the strings is the order of the pairs.
KeyBefore(a, b) == a[1] < b[1] \/ (a[1] = b[1] /\ a[2] < b[2])

\* A Map whose set keeps the value a key already has.
MapSetKeepingFirst(entries, key, value) ==
  IF \E i \in 1 .. Len(entries) : entries[i].month = key
    THEN entries
    ELSE Append(entries, [month |-> key, value |-> value])

\* Map.prototype.set on the entries of a Map in insertion order: the value
\* of a key already there is replaced in place, a new key goes to the end.
MapSet(entries, key, value) ==
  IF \E i \in 1 .. Len(entries) : entries[i].month = key
    THEN [i \in 1 .. Len(entries) |->
            IF entries[i].month = key
              THEN [month |-> key, value |-> value] ELSE entries[i]]
    ELSE Append(entries, [month |-> key, value |-> value])

RECURSIVE monthlyWealthMap(_, _, _)
\* Lines 77-83: the forEach from snapshot i on, entries being the Map so far.
monthlyWealthMap(snaps, i, entries) ==
  IF i > Len(snaps) THEN entries
  ELSE monthlyWealthMap(snaps, i + 1,
         MapSet(entries, monthKey(snaps[i].date), snaps[i].value))

RECURSIVE SortByMonth(_)
\* Line 90: sort((a, b) => a.month.localeCompare(b.month)); keys are unique.
SortByMonth(entries) ==
  IF Len(entries) = 0 THEN <<>>
  ELSE LET k == CHOOSE i \in 1 .. Len(entries) :
                  \A j \in 1 .. Len(entries) :
                    j = i \/ KeyBefore(entries[i].month, entries[j].month)
       IN  <<entries[k]>> \o
             SortByMonth(SubSeq(entries, 1, k - 1) \o
                         SubSeq(entries, k + 1, Len(entries)))

\* Lines 85-90.
monthlyWealthData(snaps) == SortByMonth(monthlyWealthMap(snaps, 1, <<>>))

\* Lines 93-100.
dailyChanges(snaps) ==
  [i \in 1 .. Len(snaps) - 1 |->
     [date |-> snaps[i + 1].date, change |-> snaps[i + 1].value - snaps[i].value]]

-----------------------------------------------------------------------------
(* Password protection: auth-utils.ts, the server action                     *)
(* authenticateWithPassword (part_007) and AuthGuard                         *)

\* Lines 13-15: the SHA-256 digest of a password, taken to be free of
\* collisions: the digest of p is the pair of the algorithm and p.
generateAuthToken(pw) == <<"sha256", pw>>

\* Lines 23-32.  !expectedPassword is true of undefined and of "".
verifyPassword(pw, expectedPassword) ==
  IF expectedPassword = "" THEN FALSE
  ELSE generateAuthToken(pw) = generateAuthToken(expectedPassword)

NoCookie == [present |-> FALSE, value |-> <<>>]
Cookie(v) == [present |-> TRUE, value |-> v]

\* Lines 39-50: the cookie the response sets.
setAuthCookie(pw) == Cookie(generateAuthToken(pw))

\* Lines 57-74, c being the cookie of the request.
isAuthenticated(expectedPassword, c) ==
  IF expectedPassword = "" THEN FALSE
  ELSE IF ~c.present THEN FALSE
  ELSE c.value = generateAuthToken(expectedPassword)

\* What authenticateWithPassword answers: the object it returns, or the
\* redirect it ends with, and the cookie of the browser afterwards.
Answer(success, err, redirectedTo, c, cookieSet) ==
  [success |-> success, error |-> err, redirect |-> redirectedTo,
   cookie |-> c, cookieSet |-> cookieSet]

\* The action that sets the cookie for every password that is not blank.
authenticateWithPasswordUnverified(pw, redirectTo, expectedPassword, c) ==
  IF IsBlank(pw) THEN Answer(FALSE, "Password is required", "", c, FALSE)
  ELSE Answer(TRUE, "", IF redirectTo = "" THEN "/dashboard" ELSE redirectTo,
              setAuthCookie(pw), TRUE)

\* part_007, lines 13-32; redirectTo is "" when it is not given.
authenticateWithPassword(pw, redirectTo, expectedPassword, c) ==
  IF IsBlank(pw) THEN Answer(FALSE, "Password is required", "", c, FALSE)
  ELSE IF ~verifyPassword(pw, expectedPassword)
    THEN Answer(FALSE, "Invalid password", "", c, FALSE)
  ELSE Answer(TRUE, "", IF redirectTo = "" THEN "/dashboard" ELSE redirectTo,
              setAuthCookie(pw), TRUE)

\* AuthGuard (product-card.tsx, lines 334-360): the page is rendered, or the
\* request is redirected to /auth with the path in redirectTo.
AuthGuard(currentPath, expectedPassword, c) ==
  IF isAuthenticated(expectedPassword, c)
    THEN [rendered |-> TRUE, redirect |-> "", redirectTo |-> ""]
    ELSE [rendered |-> FALSE, redirect |-> "/auth", redirectTo |-> currentPath]

\* No password configured, no cookie, nothing submitted.
AuthIdle ==
  /\ password = ""
  /\ cookie = NoCookie
  /\ submitted = <<>>

-----------------------------------------------------------------------------
(* The useYahooFinance hook (portfolio-snapshot-repository.ts, 126-191)      *)

\* useState<string | null>(null): no error.
NoError == ""

\* A fetchQuote call: pc is "idle" before the call, "fetch" while it awaits
\* fetch, "json" while it awaits response.json(), "done" once it returned.
IdleFetch == [pc |-> "idle", symbol |-> "", kind |-> "", returned |-> ""]

\* The hook as rendered first: useState(false), useState(null).
HookIdle ==
  /\ loading = FALSE
  /\ error = NoError
  /\ fetches = [c \in 1 .. NumFetches |-> IdleFetch]

-----------------------------------------------------------------------------
(* The snapshot recorder: POST of the cron route (route.ts, lines 59-152)    *)

Invocations == 1 .. NumInvocations

\* The products a store can hold.  A quantity is positive; a Yahoo product
\* carries its purchase price in cents; a custom product is stored with a
\* positive investment in EUR, and its investment date may lie in the future.
YahooProduct(sym, q, pp) ==
  [type |-> "YAHOO_FINANCE", quantity |-> q, symbol |-> sym, purchasePrice |-> pp,
   initialInvestment |-> 0, annualReturnRate |-> 0, investmentDate |-> 0]
CustomProduct(p, r, d, q) ==
  [type |-> "CUSTOM", quantity |-> q, symbol |-> "", purchasePrice |-> 0,
   initialInvestment |-> p, annualReturnRate |-> r, investmentDate |-> d]

Products ==
  {YahooProduct("AAPL", 1, 400), CustomProduct(1001 * CentScale, 1, 0, 3),
   CustomProduct(1000 * CentScale, 1, MaxNow + TicksPerDay, 2)}

Stores == UNION {[1 .. n -> Products] : n \in 0 .. MaxProducts}

\* The Authorization header of a request.
Headers ==
  {[present |-> FALSE, scheme |-> "", token |-> ""]}
    \cup [present : {TRUE}, scheme : {"Bearer "}, token : {"", "s3cret", "wrong"}]
    \cup [present : {TRUE}, scheme : {"Basic "}, token : {"s3cret"}]

NoStats ==
  [totalValue |-> 0, totalInvestment |-> 0, totalReturn |-> 0,
   totalReturnPercentage |-> 0, productCount |-> 0]

\* A response: the HTTP status, the message or error text, and the snapshot
\* (date, value) of a 'created' response.
Response(st, text, d, v) == [status |-> st, text |-> text, date |-> d, value |-> v]
NoResponse == Response(0, "", 0, 0)
Failure500 == Response(500, "Failed to create portfolio snapshot", 0, 0)

\* An invocation: where it is (pc), its request header, its locals (products,
\* currentPrices, the promises of Promise.all and which have settled, stats),
\* its response, and what it did: reads of the product table, calls of the
\* market-data and of the rate provider, upserts issued, whether the
\* aggregation loop ran, and which step failed.
NewInvocation ==
  [pc |-> "start", header |-> [present |-> FALSE, scheme |-> "", token |-> ""],
   products |-> <<>>, currentPrices |-> <<>>, outcomes |-> <<>>, settled |-> {},
   stats |-> NoStats, response |-> NoResponse,
   reads |-> 0, quoteCalls |-> 0, rateCalls |-> 0, upserts |-> 0,
   aggregated |-> FALSE, failure |-> ""]

\* The handler returns: its locals are gone, its response and what it did
\* remain.
Return(self, r) ==
  [self EXCEPT !.pc = "done", !.response = r, !.products = <<>>,
               !.currentPrices = <<>>, !.outcomes = <<>>, !.settled = {},
               !.stats = NoStats]

\* The catch block of POST.
Fail(self, cause) == Return([self EXCEPT !.failure = cause], Failure500)

Respond(self, r) == Return(self, r)

\* The bearer check without the comparison of the token.
AuthenticateAnyToken(i) ==
  /\ inv[i].pc = "start"
  /\ \A j \in 1 .. i - 1 : inv[j].pc # "start"
  /\ \E h \in Headers :
       LET self == [inv[i] EXCEPT !.header = h]
       IN  inv' = [inv EXCEPT ![i] =
             IF cronToken = ""
               THEN Respond(self, Response(500, "Server configuration error", 0, 0))
             ELSE IF ~h.present \/ h.scheme # "Bearer "
               THEN Respond(self,
                      Response(401, "Missing or invalid authorization header", 0, 0))
             ELSE [self EXCEPT !.pc = "read"]]
  /\ UNCHANGED <<now, cronToken, store, snapshots, nextId, call, authVars, hookVars>>

\* Lines 61-87.  !expectedToken holds of an unset and of an empty CRON_TOKEN.
\* The invocations are numbered in the order of their arrival.
Authenticate(i) ==
  /\ inv[i].pc = "start"
  /\ \A j \in 1 .. i - 1 : inv[j].pc # "start"
  /\ \E h \in Headers :
       LET self == [inv[i] EXCEPT !.header = h]
       IN  inv' = [inv EXCEPT ![i] =
             IF cronToken = ""
               THEN Respond(self, Response(500, "Server configuration error", 0, 0))
             ELSE IF ~h.present \/ h.scheme # "Bearer "
               THEN Respond(self,
                      Response(401, "Missing or invalid authorization header", 0, 0))
             ELSE IF h.token # cronToken
               THEN Respond(self, Response(401, "Invalid authorization token", 0, 0))
             ELSE [self EXCEPT !.pc = "read"]]
  /\ UNCHANGED <<now, cronToken, store, snapshots, nextId, call, authVars, hookVars>>

\* The read of the products without the early return on an empty list.
FindAllProductsNoEmptyCheck(i) ==
  /\ inv[i].pc = "read"
  /\ \E ok \in BOOLEAN :
       LET self == [inv[i] EXCEPT !.reads = @ + 1]
       IN  inv' = [inv EXCEPT ![i] =
             IF ~ok THEN Fail(self, "store")
             ELSE [self EXCEPT !.products = store,
                               !.pc = IF Len(store) = 0 THEN "stats" ELSE "pricing"]]
  /\ UNCHANGED <<now, cronToken, store, snapshots, nextId, call, authVars, hookVars>>

\* Lines 89-100: findAllProducts() resolves with the products or rejects.
FindAllProducts(i) ==
  /\ inv[i].pc = "read"
  /\ \E ok \in BOOLEAN :
       LET self == [inv[i] EXCEPT !.reads = @ + 1]
       IN  inv' = [inv EXCEPT ![i] =
             IF ~ok THEN Fail(self, "store")
             ELSE IF Len(store) = 0
               THEN Respond(self,
                      Response(200, "No products found, snapshot not created", 0, 0))
             ELSE [self EXCEPT !.products = store, !.pc = "pricing"]]
  /\ UNCHANGED <<now, cronToken, store, snapshots, nextId, call, authVars, hookVars>>

\* Lines 105-119, one turn of the loop: the price of the next product.
PriceNext(i) ==
  /\ inv[i].pc = "pricing"
  /\ LET self == inv[i]
         k == Len(self.currentPrices) + 1
         product == self.products[k]
         after == IF k = Len(self.products) THEN "stats" ELSE "pricing"
     IN  IF product.type = "YAHOO_FINANCE"
           THEN \E resp \in QuoteResponses, cur \in {c \in RateResponses : c.time = 0} :
                  LET r == fetchYahooQuoteServer(product.symbol, resp, cur)
                      price == IF r.quote.some
                                 THEN Price(r.quote.regularMarketPrice)
                                 ELSE NoPrice
                  IN  inv' = [inv EXCEPT ![i] =
                        [self EXCEPT !.currentPrices = Append(@, price),
                                     !.quoteCalls = @ + r.quoteCalls,
                                     !.rateCalls = @ + r.rateCalls,
                                     !.pc = after]]
           ELSE LET v == calculateCustomProductValue(product.initialInvestment,
                           product.annualReturnRate, product.investmentDate, now)
                IN  inv' = [inv EXCEPT ![i] =
                      IF v.threw THEN Fail(self, "valuation")
                      ELSE [self EXCEPT !.currentPrices = Append(@, Price(v.value)),
                                        !.pc = after]]
  /\ UNCHANGED <<now, cronToken, store, snapshots, nextId, call, authVars, hookVars>>

\* Lines 84-92 of portfolio-statistics.ts: products.map starts one
\* calculateProductValue per product; a custom product gets no price.
StartStatistics(i) ==
  /\ inv[i].pc = "stats"
  /\ LET self == inv[i]
         n == Len(self.products)
     IN  inv' = [inv EXCEPT ![i] =
           [self EXCEPT
              !.outcomes =
                 [k \in 1 .. n |->
                    calculateProductValue(self.products[k],
                      IF self.products[k].type = "YAHOO_FINANCE"
                        THEN self.currentPrices[k] ELSE NoPrice,
                      now)],
              !.settled = {},
              !.pc = "valuing"]]
  /\ UNCHANGED <<now, cronToken, store, snapshots, nextId, call, authVars, hookVars>>

\* A rejected valuation that is swallowed: the invocation goes on to the
\* upsert with the statistics of the values that resolved.
SettleSwallow(i, k) ==
  /\ inv[i].pc = "valuing"
  /\ k \in 1 .. Len(inv[i].products)
  /\ k \notin inv[i].settled
  /\ LET self == [inv[i] EXCEPT !.settled = @ \cup {k}]
     IN  inv' = [inv EXCEPT ![i] =
           IF self.outcomes[k].threw
             THEN [self EXCEPT !.failure = "valuation", !.pc = "upsert",
                               !.outcomes = [j \in DOMAIN @ |->
                                  IF @[j].threw THEN ProductValue(0, 0) ELSE @[j]]]
             ELSE self]
  /\ UNCHANGED <<now, cronToken, store, snapshots, nextId, call, authVars, hookVars>>

\* One promise of Promise.all settles.  The first rejection rejects
\* Promise.all, and the await of line 122 of route.ts throws into the catch
\* block.
Settle(i, k) ==
  /\ inv[i].pc = "valuing"
  /\ k \in 1 .. Len(inv[i].products)
  /\ k \notin inv[i].settled
  /\ LET self == [inv[i] EXCEPT !.settled = @ \cup {k}]
     IN  inv' = [inv EXCEPT ![i] =
           IF self.outcomes[k].threw THEN Fail(self, "valuation") ELSE self]
  /\ UNCHANGED <<now, cronToken, store, snapshots, nextId, call, authVars, hookVars>>

\* The aggregation loop started while promises are still pending.
AggregateEarly(i) ==
  /\ inv[i].pc = "valuing"
  /\ \A k \in inv[i].settled : ~inv[i].outcomes[k].threw
  /\ LET self == inv[i]
     IN  inv' = [inv EXCEPT ![i] =
           [self EXCEPT
              !.stats = aggregateValues(
                 [k \in 1 .. Len(self.outcomes) |->
                    IF k \in self.settled THEN self.outcomes[k]
                    ELSE ProductValue(0, 0)]),
              !.aggregated = TRUE,
              !.pc = "upsert"]]
  /\ UNCHANGED <<now, cronToken, store, snapshots, nextId, call, authVars, hookVars>>

\* Lines 94-124 of portfolio-statistics.ts: Promise.all has resolved, the
\* loop aggregates and the statistics are returned.
Aggregate(i) ==
  /\ inv[i].pc = "valuing"
  /\ inv[i].settled = 1 .. Len(inv[i].products)
  /\ LET self == inv[i]
     IN  inv' = [inv EXCEPT ![i] =
           [self EXCEPT !.stats = aggregateValues(self.outcomes),
                        !.aggregated = TRUE,
                        !.pc = "upsert"]]
  /\ UNCHANGED <<now, cronToken, store, snapshots, nextId, call, authVars, hookVars>>

\* Lines 124-144 of route.ts: today is the calendar date of now; the upsert
\* resolves with the row written, or rejects and writes nothing.
Upsert(i) ==
  /\ inv[i].pc = "upsert"
  /\ LET self == [inv[i] EXCEPT !.upserts = @ + 1]
         today == DateOf(now)
     IN  \E ok \in BOOLEAN :
           IF ok
             THEN /\ snapshots' = upsertPortfolioSnapshot(snapshots, today,
                                    self.stats.totalValue, nextId)
                  /\ nextId' = IF HasSnapshot(snapshots, today)
                                 THEN nextId ELSE nextId + 1
                  /\ inv' = [inv EXCEPT ![i] =
                       Respond(self, Response(200,
                         "Portfolio snapshot created successfully",
                         today, self.stats.totalValue))]
             ELSE /\ inv' = [inv EXCEPT ![i] = Fail(self, "upsert")]
                  /\ UNCHANGED <<snapshots, nextId>>
  /\ UNCHANGED <<now, cronToken, store, call, authVars, hookVars>>

\* Time passes.
Tick ==
  /\ now < MaxNow
  /\ now' = now + 1
  /\ UNCHANGED <<cronToken, store, snapshots, nextId, inv, call, authVars, hookVars>>

\* Before any call of the conversion service.
NoCall ==
  [fn |-> "", usdAmount |-> 0, date |-> 0, at |-> 0,
   hist |-> [kind |-> "throws", eur |-> 0, time |-> 0],
   cur |-> [kind |-> "throws", eur |-> 0, time |-> 0],
   threw |-> FALSE, amount |-> 0, rate |-> NoRate, calls |-> <<>>]

Init ==
  /\ now = 0
  /\ cronToken \in {"", "s3cret"}
  /\ store \in Stores
  /\ snapshots = {}
  /\ nextId = 1
  /\ inv = [i \in Invocations |-> NewInvocation]
  /\ call = NoCall
  /\ AuthIdle
  /\ HookIdle

Next ==
  \/ \E i \in Invocations : Authenticate(i)
  \/ \E i \in Invocations : FindAllProducts(i)
  \/ \E i \in Invocations : PriceNext(i)
  \/ \E i \in Invocations : StartStatistics(i)
  \/ \E i \in Invocations : \E k \in 1 .. MaxProducts : Settle(i, k)
  \/ \E i \in Invocations : Aggregate(i)
  \/ \E i \in Invocations : Upsert(i)
  \/ Tick

Spec == Init /\ [][Next]_vars

-----------------------------------------------------------------------------
(* The currency conversion service called on its own: each action is one     *)
(* call, made at some instant, with the responses of the rate provider as    *)
(* its inputs; a behaviour holds one call.  `call`                           *)
(* keeps the arguments, the responses (hist: the historical endpoint, cur:   *)
(* the latest endpoint), the instant of the call and the result.             *)

Amounts == {-25, 0, 25, 10000}
Instants == 0 .. MaxNow

CallConvertToEur ==
  /\ call = NoCall
  /\ \E a \in Amounts, c \in RateResponses :
       LET r == convertToEur(a, c)
       IN  call' = [NoCall EXCEPT !.fn = "convertToEur", !.usdAmount = a,
                      !.at = now, !.cur = c, !.threw = r.threw,
                      !.amount = r.value, !.calls = r.calls]
  /\ UNCHANGED <<now, cronToken, store, snapshots, nextId, inv, authVars, hookVars>>

CallConvertToEurHistorical ==
  /\ call = NoCall
  /\ \E a \in Amounts, d \in Instants, h \in RateResponses, c \in RateResponses :
       LET r == convertToEurHistorical(a, d, h, c)
       IN  call' = [NoCall EXCEPT !.fn = "convertToEurHistorical",
                      !.usdAmount = a, !.date = d, !.at = now, !.hist = h,
                      !.cur = c, !.threw = r.threw, !.amount = r.value,
                      !.calls = r.calls]
  /\ UNCHANGED <<now, cronToken, store, snapshots, nextId, inv, authVars, hookVars>>

CallGetCurrentExchangeRate ==
  /\ call = NoCall
  /\ \E c \in RateResponses :
       LET r == getCurrentExchangeRate(c, now)
       IN  call' = [NoCall EXCEPT !.fn = "getCurrentExchangeRate", !.at = now,
                      !.cur = c, !.threw = r.threw, !.rate = r.value,
                      !.calls = r.calls]
  /\ UNCHANGED <<now, cronToken, store, snapshots, nextId, inv, authVars, hookVars>>

CallGetHistoricalExchangeRate ==
  /\ call = NoCall
  /\ \E d \in Instants, h \in RateResponses, c \in RateResponses :
       LET r == getHistoricalExchangeRate(d, h, c)
       IN  call' = [NoCall EXCEPT !.fn = "getHistoricalExchangeRate",
                      !.date = d, !.at = now, !.hist = h, !.cur = c,
                      !.threw = r.threw, !.rate = r.value, !.calls = r.calls]
  /\ UNCHANGED <<now, cronToken, store, snapshots, nextId, inv, authVars, hookVars>>

ConvInit ==
  /\ now = 0
  /\ cronToken = ""
  /\ store = <<>>
  /\ snapshots = {}
  /\ nextId = 1
  /\ inv = [i \in Invocations |-> NewInvocation]
  /\ call = NoCall
  /\ AuthIdle
  /\ HookIdle

ConvNext ==
  \/ CallConvertToEur
  \/ CallConvertToEurHistorical
  \/ CallGetCurrentExchangeRate
  \/ CallGetHistoricalExchangeRate
  \/ Tick

ConvSpec == ConvInit /\ [][ConvNext]_vars

-----------------------------------------------------------------------------
(* The valuation functions called on their own: the fixed-rate valuator,     *)
(* the creation of a custom product, the quote resolver and the portfolio    *)
(* statistics.  Each action is one call with its inputs and the responses of *)
(* the providers; `call` keeps the inputs and the result.                    *)

\* Principals in 1/CentScale cents: negative, zero, below a cent, half a
\* cent, a whole number of cents, and a number of cents and a half.
Principals ==
  {-CentScale, 0, 1, CentScale \div 2, 100 * CentScale,
   100 * CentScale + CentScale \div 2}

\* Annual rates in halves: -150%, -100%, -50%, 0, 50% and 7300% (20% a day).
Rates == {-3, -2, -1, 0, 1, 146}

Dates == 0 .. MaxInstant

Valuators == {"calculateCustomProductValue", "calculateCustomProductValueSync"}

Valuate(fn, p, r, investmentDate, currentDate) ==
  IF fn = "calculateCustomProductValue"
    THEN calculateCustomProductValue(p, r, investmentDate, currentDate)
    ELSE calculateCustomProductValueSync(p, r, investmentDate, currentDate)

\* A call of a valuator and its result; previousDate and previousValue are
\* the evaluation date and the value of the valuation of the same holding
\* made before this one, if any.
Valuation(fn, p, r, investmentDate, currentDate, res, revalued, pd, pv) ==
  [fn |-> fn, initialInvestmentEur |-> p, annualReturnRate |-> r,
   investmentDate |-> investmentDate, currentDate |-> currentDate,
   threw |-> res.threw, value |-> res.value, error |-> res.error,
   revalued |-> revalued, previousDate |-> pd, previousValue |-> pv]

CallCalculateCustomProductValue ==
  /\ call = NoCall
  /\ \E p \in Principals, r \in Rates, d \in Dates, c \in Dates :
       call' = Valuation("calculateCustomProductValue", p, r, d, c,
                         calculateCustomProductValue(p, r, d, c), FALSE, 0, 0)
  /\ UNCHANGED <<now, cronToken, store, snapshots, nextId, inv, authVars, hookVars>>

CallCalculateCustomProductValueSync ==
  /\ call = NoCall
  /\ \E p \in Principals, r \in Rates, d \in Dates, c \in Dates :
       call' = Valuation("calculateCustomProductValueSync", p, r, d, c,
                         calculateCustomProductValueSync(p, r, d, c), FALSE, 0, 0)
  /\ UNCHANGED <<now, cronToken, store, snapshots, nextId, inv, authVars, hookVars>>

\* The holding valued before is valued again, by the same function, at a
\* later date.
Revalue ==
  /\ call.fn \in Valuators
  /\ ~call.threw
  /\ \E c \in Dates :
       /\ c > call.currentDate
       /\ call' = Valuation(call.fn, call.initialInvestmentEur,
                    call.annualReturnRate, call.investmentDate, c,
                    Valuate(call.fn, call.initialInvestmentEur,
                            call.annualReturnRate, call.investmentDate, c),
                    TRUE, call.currentDate, call.value)
  /\ UNCHANGED <<now, cronToken, store, snapshots, nextId, inv, authVars, hookVars>>

NoProduct == CustomProduct(0, 0, 0, 0)

\* createCustomProductAction (product-actions.ts, lines 83-121):
\* initialInvestment is a number of cents in the currency named; the product
\* handed to the repository carries the investment in EUR.  ok: the
\* repository creates the product; otherwise it throws, and so the action
\* answers success: false.
createCustomProductAction(annualReturnRate, initialInvestment, investmentDate, quantity, currency, cur, ok) ==
  LET conv == convertToEur(initialInvestment, cur)
      converts == currency = "USD"
      initialInvestmentEur == IF converts THEN conv.value ELSE initialInvestment
      calls == IF converts THEN conv.calls ELSE <<>>
  IN  IF (converts /\ conv.threw) \/ ~ok
        THEN [success |-> FALSE, product |-> NoProduct, calls |-> calls]
        ELSE [success |-> TRUE,
              product |-> CustomProduct(initialInvestmentEur * CentScale,
                            annualReturnRate, investmentDate, quantity),
              calls |-> calls]

\* hist is what the historical endpoint of the rate provider answers for the
\* investment date, cur what its latest endpoint answers.
CallCreateCustomProductAction ==
  /\ call = NoCall
  /\ \E a \in {25, 10000}, d \in Dates, currency \in {"EUR", "USD"},
        h \in {x \in RateResponses : x.time = 0},
        c \in {x \in RateResponses : x.time = 0}, ok \in BOOLEAN :
       LET r == createCustomProductAction(1, a, d, 1, currency, c, ok)
       IN  call' = [fn |-> "createCustomProductAction", initialInvestment |-> a,
                    investmentDate |-> d, currency |-> currency, hist |-> h,
                    cur |-> c, success |-> r.success, product |-> r.product,
                    calls |-> r.calls]
  /\ UNCHANGED <<now, cronToken, store, snapshots, nextId, inv, authVars, hookVars>>

Symbols == {"", " ", "AAPL"}

CallFetchYahooQuoteServer ==
  /\ call = NoCall
  /\ \E symbol \in Symbols, resp \in QuoteResponses,
        c \in {x \in RateResponses : x.time = 0} :
       LET r == fetchYahooQuoteServer(symbol, resp, c)
       IN  call' = [fn |-> "fetchYahooQuoteServer", symbol |-> symbol,
                    resp |-> resp, cur |-> c, threw |-> r.threw,
                    quote |-> r.quote, quoteCalls |-> r.quoteCalls,
                    rateCalls |-> r.rateCalls]
  /\ UNCHANGED <<now, cronToken, store, snapshots, nextId, inv, authVars, hookVars>>

\* The prices a currentPrices map can hold for a product: none, 0, 4.75, 5.00.
Prices == {NoPrice, Price(0), Price(475), Price(500)}

CallCalculatePortfolioStatistics ==
  /\ call = NoCall
  /\ \E products \in Stores :
       \E currentPrices \in [1 .. Len(products) -> Prices] :
         LET r == calculatePortfolioStatistics(products, currentPrices, now)
         IN  call' = [fn |-> "calculatePortfolioStatistics",
                      products |-> products, currentPrices |-> currentPrices,
                      at |-> now, threw |-> r.threw, stats |-> r.stats]
  /\ UNCHANGED <<now, cronToken, store, snapshots, nextId, inv, authVars, hookVars>>

\* The products a projection is made of: a market-tracked product, a custom
\* product in EUR of 100.00 at 50% a year, the same recorded in USD, and a
\* custom product in EUR of 10.01 at -50% a year held one and a half times.
ProfitProducts ==
  {WithCurrency(YahooProduct("AAPL", QtyScale, 400), ""),
   WithCurrency(CustomProduct(10000 * CentScale, 1, 0, QtyScale), "EUR"),
   WithCurrency(CustomProduct(10000 * CentScale, 1, 0, QtyScale), "USD"),
   WithCurrency(CustomProduct(1001 * CentScale, -1, 0, QtyScale + 1), "EUR")}

ProfitLists == UNION {[1 .. n -> ProfitProducts] : n \in 0 .. MaxProducts}

CallCalculateProfitRatesSync ==
  /\ call = NoCall
  /\ \E products \in ProfitLists :
       call' = [fn |-> "calculateProfitRatesSync", products |-> products,
                threw |-> FALSE, rates |-> calculateProfitRatesSync(products)]
  /\ UNCHANGED <<now, cronToken, store, snapshots, nextId, inv, authVars, hookVars>>

CallCalculateProfitRates ==
  /\ call = NoCall
  /\ \E products \in ProfitLists :
       \E curs \in [1 .. Len(products) -> {x \in RateResponses : x.time = 0}] :
         LET r == calculateProfitRates(products, curs)
         IN  call' = [fn |-> "calculateProfitRates", products |-> products,
                      curs |-> curs, threw |-> r.threw, rates |-> r.rates]
  /\ UNCHANGED <<now, cronToken, store, snapshots, nextId, inv, authVars, hookVars>>

CalcInit ==
  /\ now \in 0 .. MaxNow
  /\ cronToken = ""
  /\ store = <<>>
  /\ snapshots = {}
  /\ nextId = 1
  /\ inv = [i \in Invocations |-> NewInvocation]
  /\ call = NoCall
  /\ AuthIdle
  /\ HookIdle

CalcNext ==
  \/ CallCalculateCustomProductValue
  \/ CallCalculateCustomProductValueSync
  \/ Revalue
  \/ CallCreateCustomProductAction
  \/ CallFetchYahooQuoteServer
  \/ CallCalculatePortfolioStatistics
  \/ CallCalculateProfitRatesSync
  \/ CallCalculateProfitRates

CalcSpec == CalcInit /\ [][CalcNext]_vars

-----------------------------------------------------------------------------
(* The dashboard page rendered over a table of snapshots: `call` keeps the   *)
(* snapshots fetched and the three series made of them.                      *)

\* The value of a snapshot in cents, or NoSnapshot for a day without one.
NoSnapshot == -1
SnapshotValues == {10000, 15000}

\* The table holding, for each day up to LastDay, the snapshot v[day] if any.
TableOf(v) ==
  {[id |-> d + 1, date |-> d, value |-> v[d]] :
     d \in {x \in 0 .. LastDay : v[x] # NoSnapshot}}

SnapshotTables ==
  {TableOf(v) : v \in [0 .. LastDay -> SnapshotValues \cup {NoSnapshot}]}

\* DashboardPage, lines 67-100.
RenderDashboard ==
  /\ call = NoCall
  /\ LET snaps == getPortfolioSnapshotsLastNDays(snapshots, HistoryDays, now)
     IN  call' = [fn |-> "DashboardPage", snapshots |-> snaps,
                  evolutionData |-> evolutionData(snaps),
                  monthlyWealthData |-> monthlyWealthData(snaps),
                  dailyChanges |-> dailyChanges(snaps)]
  /\ UNCHANGED <<now, cronToken, store, snapshots, nextId, inv, authVars, hookVars>>

\* The dashboard is rendered on LastDay, at midnight or later in the day.
DashInit ==
  /\ now \in {StartOfDate(LastDay), StartOfDate(LastDay) + 1}
  /\ cronToken = ""
  /\ store = <<>>
  /\ snapshots \in SnapshotTables
  /\ nextId = LastDay + 2
  /\ inv = [i \in Invocations |-> NewInvocation]
  /\ call = NoCall
  /\ AuthIdle
  /\ HookIdle

DashNext == RenderDashboard

DashSpec == DashInit /\ [][DashNext]_vars

-----------------------------------------------------------------------------
(* A browser session against the password protection: passwords are          *)
(* submitted to the server action and guarded pages are requested; `call`    *)
(* keeps the last request and its answer.                                    *)

\* The passwords a visitor submits: none, blank, wrong ones, the configured
\* one.
Passwords == {"", " ", "wrong", "old", "hunter2"}

\* The cookies a browser can come with: none, or a value that is not the
\* token of the configured password.
ForeignCookies ==
  {NoCookie, Cookie(generateAuthToken("old")), Cookie(generateAuthToken(""))}

GuardedPaths == {"/dashboard", "/products/add"}

SubmitPassword ==
  /\ Len(submitted) < MaxAttempts
  /\ \E pw \in Passwords, redirectTo \in {"", "/products/add"} :
       LET r == authenticateWithPassword(pw, redirectTo, password, cookie)
       IN  /\ cookie' = r.cookie
           /\ submitted' = Append(submitted, pw)
           /\ call' = [fn |-> "authenticateWithPassword", password |-> pw,
                        path |-> redirectTo, success |-> r.success,
                        error |-> r.error, redirect |-> r.redirect,
                        cookieSet |-> r.cookieSet, cookieBefore |-> cookie,
                        rendered |-> FALSE]
  /\ UNCHANGED <<now, cronToken, store, snapshots, nextId, inv, password, hookVars>>

RequestGuardedPage ==
  /\ \E path \in GuardedPaths :
       LET r == AuthGuard(path, password, cookie)
       IN  call' = [fn |-> "AuthGuard", password |-> "", path |-> path,
                    success |-> FALSE, error |-> "", redirect |-> r.redirect,
                    cookieSet |-> FALSE, cookieBefore |-> cookie,
                    rendered |-> r.rendered]
  /\ UNCHANGED <<now, cronToken, store, snapshots, nextId, inv, authVars, hookVars>>

AuthInit ==
  /\ now = 0
  /\ cronToken = ""
  /\ store = <<>>
  /\ snapshots = {}
  /\ nextId = 1
  /\ inv = [i \in Invocations |-> NewInvocation]
  /\ call = NoCall
  /\ password \in {"", "hunter2"}
  /\ cookie \in ForeignCookies
  /\ submitted = <<>>
  /\ HookIdle

AuthNext ==
  \/ SubmitPassword
  \/ RequestGuardedPage

AuthSpec == AuthInit /\ [][AuthNext]_vars

-----------------------------------------------------------------------------
(* A component using the hook: fetchQuote calls that overlap.  Each await of *)
(* a call is a step; the state setters act at once.                          *)

\* What the fetch of a call resolves to: it throws, the response is not OK,
\* response.json() carries no price data, or it carries a price.
FetchKinds == {"throws", "notOk", "noPrice", "ok"}

\* Lines 137-143: the call returns null for a blank symbol, else it sets
\* loading and clears the error before it awaits fetch.
FetchQuoteStart(c) ==
  /\ fetches[c].pc = "idle"
  /\ \E symbol \in Symbols :
       IF IsBlank(symbol)
         THEN /\ error' = "Symbol cannot be empty"
              /\ loading' = loading
              /\ fetches' = [fetches EXCEPT ![c] =
                   [pc |-> "done", symbol |-> symbol, kind |-> "",
                    returned |-> "null"]]
         ELSE /\ loading' = TRUE
              /\ error' = NoError
              /\ fetches' = [fetches EXCEPT ![c] =
                   [pc |-> "fetch", symbol |-> symbol, kind |-> "",
                    returned |-> ""]]
  /\ UNCHANGED <<now, cronToken, store, snapshots, nextId, inv, call, authVars>>

\* Lines 150-161 with the catch and finally blocks of lines 178-185: fetch
\* settles; a rejection or a response that is not OK ends the call.
FetchSettles(c) ==
  /\ fetches[c].pc = "fetch"
  /\ \E kind \in FetchKinds :
       IF kind = "throws" \/ kind = "notOk"
         THEN /\ error' = (IF kind = "throws" THEN "Network error"
                           ELSE "Failed to fetch quote")
              /\ loading' = FALSE
              /\ fetches' = [fetches EXCEPT ![c].pc = "done", ![c].kind = kind,
                                            ![c].returned = "null"]
         ELSE /\ UNCHANGED <<loading, error>>
              /\ fetches' = [fetches EXCEPT ![c].pc = "json", ![c].kind = kind]
  /\ UNCHANGED <<now, cronToken, store, snapshots, nextId, inv, call, authVars>>

\* Lines 161-185: response.json() settles; the call returns the quote, or
\* null when there is no price data, and finally clears loading.
JsonSettles(c) ==
  /\ fetches[c].pc = "json"
  /\ IF fetches[c].kind = "noPrice"
       THEN /\ error' = "No price data available"
            /\ fetches' = [fetches EXCEPT ![c].pc = "done",
                                          ![c].returned = "null"]
       ELSE /\ error' = error
            /\ fetches' = [fetches EXCEPT ![c].pc = "done",
                                          ![c].returned = "quote"]
  /\ loading' = FALSE
  /\ UNCHANGED <<now, cronToken, store, snapshots, nextId, inv, call, authVars>>

HookInit ==
  /\ now = 0
  /\ cronToken = ""
  /\ store = <<>>
  /\ snapshots = {}
  /\ nextId = 1
  /\ inv = [i \in Invocations |-> NewInvocation]
  /\ call = NoCall
  /\ AuthIdle
  /\ HookIdle

HookNext ==
  \/ \E c \in 1 .. NumFetches : FetchQuoteStart(c)
  \/ \E c \in 1 .. NumFetches : FetchSettles(c)
  \/ \E c \in 1 .. NumFetches : JsonSettles(c)

HookSpec == HookInit /\ [][HookNext]_vars

-----------------------------------------------------------------------------
(* Claims about the currency conversion service *)

\* The provider answered with a usable EUR rate.
RateFound(resp) == resp.kind = "ok" /\ resp.eur # 0

\* C8: convertToEurHistorical, when the historical fetch fails or returns no
\* EUR rate, converts at the current rate if the current-rate fetch succeeds
\* and at 0.92 only if that fetch fails too, and never raises.
C8_HistoricalFallsBackToCurrent ==
  (call.fn = "convertToEurHistorical" /\ ~RateFound(call.hist)) =>
    /\ ~call.threw
    /\ RateFound(call.cur) =>
         call.amount = MathRound(call.usdAmount * call.cur.eur, 100)
    /\ ~RateFound(call.cur) =>
         call.amount = MathRound(call.usdAmount * 92, 100)

\* The historical endpoint threw, the latest endpoint answered 0.90, and 100.00
\* USD became 90.00 EUR, not 92.00.
C8_Witness ==
  /\ call.fn = "convertToEurHistorical"
  /\ call.hist.kind = "throws"
  /\ call.cur.kind = "ok" /\ call.cur.eur = 90
  /\ call.usdAmount = 10000
  /\ call.amount = 9000
  /\ call.calls = <<"history", "latest">>

\* C9: convertToEur, when the current-rate fetch fails (it throws, the
\* response is not OK, or it carries no EUR rate), returns amount x 0.92
\* rounded to cents and raises nothing; 100.00 becomes 92.00.
C9_ConvertFallsBackToFixedRate ==
  (call.fn = "convertToEur" /\ ~RateFound(call.cur)) =>
    /\ ~call.threw
    /\ call.amount = (2 * call.usdAmount * 92 + 100) \div 200
    /\ call.usdAmount = 10000 => call.amount = 9200

\* The fetch threw and 100.00 USD became 92.00 EUR.
C9_Witness ==
  /\ call.fn = "convertToEur"
  /\ call.cur.kind = "throws"
  /\ call.usdAmount = 10000
  /\ call.amount = 9200
  /\ ~call.threw

\* The tuple getHistoricalExchangeRate and getCurrentExchangeRate build when
\* no rate was fetched.
IsFallbackTuple(rate, stamp) ==
  /\ rate.some
  /\ rate.from = "USD" /\ rate.to = "EUR"
  /\ rate.rate = 92
  /\ rate.timestamp = stamp

\* The rate of the historical endpoint for the calendar date of the request.
IsHistoricalRate(c) ==
  /\ RateFound(c.hist)
  /\ c.rate.some
  /\ c.rate.rate = c.hist.eur
  /\ c.rate.timestamp = StartOfDate(DateOf(c.date))

\* The rate of the latest endpoint, stamped by the provider.
IsLiveRate(c) ==
  /\ RateFound(c.cur)
  /\ c.rate.some
  /\ c.rate.rate = c.cur.eur
  /\ c.rate.timestamp = c.cur.time

\* C10 as stated: getHistoricalExchangeRate returns the historical rate of
\* the requested date or the fallback tuple stamped with the requested date;
\* getCurrentExchangeRate returns the live rate or the fallback tuple stamped
\* with the present time.
C10_AsStated ==
  /\ call.fn = "getHistoricalExchangeRate" =>
       /\ ~call.threw
       /\ IsHistoricalRate(call) \/ IsFallbackTuple(call.rate, call.date)
  /\ call.fn = "getCurrentExchangeRate" =>
       /\ ~call.threw
       /\ IsLiveRate(call) \/ IsFallbackTuple(call.rate, call.at)

\* C10, amended: getHistoricalExchangeRate returns the historical rate of the
\* requested date; or, when the historical fetch fails and the current-rate
\* fetch succeeds, the live rate with the provider's timestamp; or, when both
\* fail, the fallback tuple (USD to EUR, 0.92) stamped with the requested
\* date, never with the present time.  getCurrentExchangeRate returns the
\* live rate or the fallback tuple stamped with the present time.
C10_HistoricalLiveOrFallback ==
  /\ call.fn = "getHistoricalExchangeRate" =>
       /\ ~call.threw
       /\ RateFound(call.hist) => IsHistoricalRate(call)
       /\ (~RateFound(call.hist) /\ RateFound(call.cur)) => IsLiveRate(call)
       /\ (~RateFound(call.hist) /\ ~RateFound(call.cur)) =>
            IsFallbackTuple(call.rate, call.date)
  /\ call.fn = "getCurrentExchangeRate" =>
       /\ ~call.threw
       /\ RateFound(call.cur) => IsLiveRate(call)
       /\ ~RateFound(call.cur) => IsFallbackTuple(call.rate, call.at)

\* Both fetches failed for a requested instant that is not the present one:
\* the tuple carries the requested instant.
C10_Witness ==
  /\ call.fn = "getHistoricalExchangeRate"
  /\ ~RateFound(call.hist) /\ ~RateFound(call.cur)
  /\ call.date # call.at
  /\ call.rate.timestamp = call.date
  /\ call.rate.rate = 92

-----------------------------------------------------------------------------
(* Claims about the snapshot recorder *)

Created(r) == r.status = 200 /\ r.text = "Portfolio snapshot created successfully"

NoProductsFound == Response(200, "No products found, snapshot not created", 0, 0)

\* Promise.all is pending and nothing is wrong with the invocation but the
\* quote of a market-tracked product: every custom product has a value and
\* every quote that came carries a price other than 0.
OnlyQuotesMissing(self) ==
  /\ self.pc = "valuing"
  /\ \E k \in 1 .. Len(self.products) :
       self.products[k].type = "YAHOO_FINANCE" /\ ~self.currentPrices[k].has
  /\ \A k \in 1 .. Len(self.products) :
       IF self.products[k].type = "YAHOO_FINANCE"
         THEN self.currentPrices[k].has => self.currentPrices[k].price # 0
         ELSE ~self.outcomes[k].threw

\* The valuation in degraded mode: a market-tracked product without a price
\* is worth 0.
calculateProductValueDegraded(product, currentPrice, currentDate) ==
  IF product.type = "YAHOO_FINANCE"
    THEN ProductValue(currentPrice.price * CentScale * product.quantity, 0)
    ELSE LET v == calculateCustomProductValue(product.initialInvestment,
                    product.annualReturnRate, product.investmentDate, currentDate)
         IN  IF v.threw THEN ProductError(v.error)
             ELSE ProductValue(v.value * CentScale * product.quantity,
                               product.initialInvestment * product.quantity)

\* The total of the products with an unpriced market-tracked product worth 0.
DegradedTotal(self) ==
  LET n == Len(self.products)
  IN  MathRound(
        SumOver([k \in 1 .. n |->
                   calculateProductValueDegraded(self.products[k],
                     IF self.products[k].type = "YAHOO_FINANCE"
                       THEN self.currentPrices[k] ELSE NoPrice,
                     now).currentValue],
                1, n),
        CentScale * QtyScale)

\* C1: an invocation that passed authentication with a non-empty product list
\* and for which the quote of a market-tracked product is unavailable counts
\* that product as 0, values the others normally and goes on to the upsert:
\* it never ends in the error response.
C1_UnpricedHoldingCountsZero ==
  [][\A i \in Invocations :
       OnlyQuotesMissing(inv[i]) =>
         /\ inv'[i].failure # "valuation"
         /\ inv'[i].response # Failure500
         /\ inv'[i].pc = "upsert" => inv'[i].stats.totalValue = DegradedTotal(inv[i])]_vars

\* The table holds at most one row per date.
OnePerDate ==
  \A r1, r2 \in snapshots : r1.date = r2.date => r1 = r2

\* An upsert that succeeds leaves a row of today's date with the value of the
\* invocation; it overwrites the row of that date, keeping its id, or adds one.
UpsertWrites ==
  \A i \in Invocations :
    (inv[i].pc = "upsert" /\ Created(inv'[i].response)) =>
      LET today == DateOf(now)
          value == inv[i].stats.totalValue
      IN  /\ \E r \in snapshots' : r.date = today /\ r.value = value
          /\ IF HasSnapshot(snapshots, today)
               THEN /\ Cardinality(snapshots') = Cardinality(snapshots)
                    /\ {r.id : r \in snapshots'} = {r.id : r \in snapshots}
               ELSE Cardinality(snapshots') = Cardinality(snapshots) + 1

\* C2: whatever the invocations do, racing for a date or not, the table holds
\* at most one snapshot per calendar date, and an upsert overwrites the
\* snapshot of its date (the value stored is the one written last) or creates
\* it.
C2_OneSnapshotPerDate == []OnePerDate /\ [][UpsertWrites]_vars

\* Two invocations overlapped and wrote different values for one date: the
\* one that arrived first wrote last, and the single row holds its value.
C2_Witness ==
  /\ Created(inv[1].response) /\ Created(inv[2].response)
  /\ inv[1].response.date = inv[2].response.date
  /\ inv[1].response.value # inv[2].response.value
  /\ \E r \in snapshots :
       r.date = inv[1].response.date /\ r.value = inv[1].response.value
  /\ Cardinality(snapshots) = 1

\* An invocation in which a valuation failed issued no upsert and ends with
\* the generic failure response.
FailedValuationWritesNothing ==
  \A i \in Invocations :
    inv[i].failure = "valuation" =>
      /\ inv[i].upserts = 0
      /\ inv[i].pc = "done"
      /\ inv[i].response = Failure500

\* The table changes only in the step of an upsert, issued by an invocation
\* in which nothing failed.
OnlyUpsertWrites ==
  snapshots' # snapshots =>
    \E i \in Invocations :
      /\ inv[i].pc = "upsert"
      /\ inv[i].failure = ""
      /\ inv'[i].upserts = inv[i].upserts + 1
      /\ Created(inv'[i].response)

\* C3: if a valuation or the aggregation fails, the invocation issues no
\* upsert, leaves the snapshot table as it was and answers with the generic
\* failure response.
C3_FailureWritesNothing ==
  []FailedValuationWritesNothing /\ [][OnlyUpsertWrites]_vars

\* A valuation failed after the quote provider was called, while the other
\* invocation had recorded a snapshot: the table still holds just that row.
C3_Witness ==
  \E i, j \in Invocations :
    /\ inv[i].failure = "valuation"
    /\ inv[i].response = Failure500
    /\ inv[i].quoteCalls > 0
    /\ inv[i].upserts = 0
    /\ Created(inv[j].response)
    /\ Cardinality(snapshots) = 1

\* C4: with an empty product list the recorder answers 'no products found'
\* with status 200, issues no upsert and calls neither the quote nor the rate
\* provider.
C4_EmptyPortfolioRecordsNothing ==
  \A i \in Invocations :
    (Len(store) = 0 /\ inv[i].reads = 1 /\ inv[i].failure # "store") =>
      /\ inv[i].pc = "done"
      /\ inv[i].response = NoProductsFound
      /\ inv[i].upserts = 0 /\ ~inv[i].aggregated
      /\ inv[i].quoteCalls = 0 /\ inv[i].rateCalls = 0
      /\ snapshots = {}

\* Both invocations read an empty product table and answered.
C4_Witness ==
  /\ Len(store) = 0
  /\ \A i \in Invocations :
       inv[i].reads = 1 /\ inv[i].response = NoProductsFound

\* C5: the aggregation starts only when every valuation has resolved, and the
\* upsert is issued once, after the aggregation, as the last thing the
\* invocation does before it answers.
C5_AggregateAfterAllValuations ==
  \A i \in Invocations :
    /\ inv[i].pc = "upsert" =>
         /\ inv[i].aggregated
         /\ inv[i].settled = 1 .. Len(inv[i].products)
         /\ \A k \in inv[i].settled : ~inv[i].outcomes[k].threw
    /\ inv[i].aggregated => inv[i].pc \in {"upsert", "done"}
    /\ inv[i].upserts <= 1
    /\ inv[i].upserts = 1 => (inv[i].aggregated /\ inv[i].pc = "done")
    /\ Created(inv[i].response) => inv[i].upserts = 1

\* An invocation over two products recorded a snapshot while the other is
\* about to upsert, all its valuations resolved.
C5_Witness ==
  \E i, j \in Invocations :
    /\ Len(store) = 2
    /\ Created(inv[i].response) /\ inv[i].upserts = 1
    /\ inv[j].pc = "upsert" /\ inv[j].settled = {1, 2}

Authorized(h) ==
  /\ cronToken # ""
  /\ h.present
  /\ h.scheme = "Bearer "
  /\ h.token = cronToken

\* C7: a request without Authorization header, with a header that is no
\* Bearer credential or with another token than the secret is answered 401
\* and reads no product, calls no provider and writes no snapshot; without a
\* configured secret every request is rejected (500), likewise.
C7_UnauthorizedNeverReachesCore ==
  \A i \in Invocations :
    (inv[i].pc # "start" /\ ~Authorized(inv[i].header)) =>
      /\ inv[i].pc = "done"
      /\ inv[i].response.status = IF cronToken = "" THEN 500 ELSE 401
      /\ inv[i].reads = 0
      /\ inv[i].quoteCalls = 0 /\ inv[i].rateCalls = 0
      /\ inv[i].upserts = 0 /\ ~inv[i].aggregated
      /\ cronToken = "" => snapshots = {}

\* A request with a wrong token was answered 401 while the other invocation,
\* with the secret, recorded a snapshot.
C7_Witness ==
  \E i, j \in Invocations :
    /\ inv[i].header.scheme = "Bearer " /\ inv[i].header.token = "wrong"
    /\ inv[i].response.status = 401
    /\ inv[i].reads = 0
    /\ Created(inv[j].response)

-----------------------------------------------------------------------------
(* Claims about the fixed-rate valuator *)

Abs(x) == IF x < 0 THEN -x ELSE x

\* The call is one of a valuator with a positive principal and a rate of
\* -100% or more.
ValuedWith(c) ==
  /\ c.fn \in Valuators
  /\ c.initialInvestmentEur > 0
  /\ c.annualReturnRate >= -2

\* C11: both variants of the valuator raise 'Initial investment must be
\* positive' for every principal <= 0, and 'Annual return rate cannot be less
\* than -100%' for every rate below -100% with a positive principal; no value
\* is returned.
C11_InvalidInputRaises ==
  call.fn \in Valuators =>
    /\ call.initialInvestmentEur <= 0 =>
         /\ call.threw
         /\ call.error = "Initial investment must be positive"
         /\ call.value = 0
    /\ (call.initialInvestmentEur > 0 /\ call.annualReturnRate < -2) =>
         /\ call.threw
         /\ call.error = "Annual return rate cannot be less than -100%"
         /\ call.value = 0

\* The synchronous variant refused a rate of -150% on a principal of 1.00.
C11_Witness ==
  /\ call.fn = "calculateCustomProductValueSync"
  /\ call.initialInvestmentEur = 100 * CentScale
  /\ call.annualReturnRate = -3
  /\ call.threw
  /\ call.error = "Annual return rate cannot be less than -100%"

\* C12: for every evaluation date strictly earlier than the investment date,
\* by less than a day too, the valuator raises 'Investment date cannot be in
\* the future' and returns no value.
C12_EarlierEvaluationRaises ==
  (ValuedWith(call) /\ call.currentDate < call.investmentDate) =>
    /\ call.threw
    /\ call.error = "Investment date cannot be in the future"

\* C13 as stated: with a positive principal, a rate of -100% or more and the
\* evaluation date equal to the investment date the valuator returns exactly
\* the principal.
C13_AsStated ==
  (ValuedWith(call) /\ call.currentDate = call.investmentDate) =>
    /\ ~call.threw
    /\ call.value * CentScale = call.initialInvestmentEur

\* C13, amended: with a positive principal, a rate of -100% or more and the
\* evaluation date equal to the investment date the valuator returns the
\* principal rounded to cents, which is exactly the principal when the
\* principal is a whole number of cents.
C13_ZeroDaysReturnsRoundedPrincipal ==
  (ValuedWith(call) /\ call.currentDate = call.investmentDate) =>
    /\ ~call.threw
    /\ 2 * Abs(call.value * CentScale - call.initialInvestmentEur) <= CentScale
    /\ call.initialInvestmentEur % CentScale = 0 =>
         call.value * CentScale = call.initialInvestmentEur

\* A principal of 1.00 valued on the day of its investment at 20% a day is
\* worth 1.00.
C13_Witness ==
  /\ call.fn = "calculateCustomProductValue"
  /\ call.initialInvestmentEur = 100 * CentScale
  /\ call.annualReturnRate = 146
  /\ call.investmentDate = TicksPerDay + 1
  /\ call.currentDate = call.investmentDate
  /\ call.value = 100

C15_MonotoneInElapsedDays ==
  (call.fn \in Valuators /\ call.revalued /\ ~call.threw) =>
    /\ call.currentDate > call.previousDate
    /\ call.annualReturnRate > 0 => call.value >= call.previousValue
    /\ call.annualReturnRate < 0 => call.value <= call.previousValue

\* A holding with a rate of -100% lost value between two valuations.
C15_Witness ==
  /\ call.fn = "calculateCustomProductValueSync"
  /\ call.revalued
  /\ call.annualReturnRate = -2
  /\ call.currentDate > call.previousDate
  /\ call.value < call.previousValue

\* C16: an investment recorded in USD is stored converted to EUR through the
\* historical conversion for the investment date: the historical endpoint is
\* asked first, and the principal that is compounded is the amount at the
\* rate of that date.
C16_UsdPrincipalAtHistoricalRate ==
  (call.fn = "createCustomProductAction" /\ call.currency = "USD" /\ call.success) =>
    LET historical == convertToEurHistorical(call.initialInvestment,
                        call.investmentDate, call.hist, call.cur)
    IN  /\ call.calls = historical.calls
        /\ call.product.initialInvestment = historical.value * CentScale

-----------------------------------------------------------------------------
(* Claims about the quote resolver *)

\* C17: the resolver returns null without calling the market-data provider
\* when the symbol is empty or blank, returns null when the provider throws
\* or returns no price, and never raises.
C17_NullInsteadOfRaising ==
  call.fn = "fetchYahooQuoteServer" =>
    /\ ~call.threw
    /\ IsBlank(call.symbol) =>
         ~call.quote.some /\ call.quoteCalls = 0 /\ call.rateCalls = 0
    /\ call.resp.kind \in {"throws", "noPrice"} => ~call.quote.some

\* The provider threw for a symbol that is not blank, and the resolver
\* returned null after its one call.
C17_Witness ==
  /\ call.fn = "fetchYahooQuoteServer"
  /\ call.symbol = "AAPL"
  /\ call.resp.kind = "throws"
  /\ call.quoteCalls = 1
  /\ ~call.quote.some
  /\ ~call.threw

\* C18: on a successful quote the price resolved is the price of the provider
\* when its currency is EUR, and otherwise (USD, no currency, any other
\* currency) that price converted at the current rate, or at 0.92 when the
\* rate cannot be fetched.
C18_PriceInEur ==
  (call.fn = "fetchYahooQuoteServer" /\ ~IsBlank(call.symbol)
     /\ call.resp.kind = "ok") =>
    /\ ~call.threw
    /\ call.quote.some
    /\ call.resp.currency = "EUR" =>
         /\ call.quote.regularMarketPrice = call.resp.price
         /\ call.rateCalls = 0
    /\ call.resp.currency # "EUR" =>
         /\ call.rateCalls = 1
         /\ call.quote.regularMarketPrice =
              MathRound(call.resp.price
                          * (IF RateFound(call.cur) THEN call.cur.eur ELSE 92),
                        100)

\* A price of 5.00 in GBP, the rate provider failing, was resolved as 4.60.
C18_Witness ==
  /\ call.fn = "fetchYahooQuoteServer"
  /\ call.resp.kind = "ok" /\ call.resp.currency = "GBP"
  /\ call.resp.price = 500
  /\ call.cur.kind = "throws"
  /\ call.quote.some
  /\ call.quote.regularMarketPrice = 460

-----------------------------------------------------------------------------
(* Claims about the portfolio statistics *)

\* The value of one unit of a holding, in cents: its price, or what the
\* valuator returns.
UnitValue(c, k) ==
  IF c.products[k].type = "YAHOO_FINANCE"
    THEN c.currentPrices[k].price
    ELSE calculateCustomProductValue(c.products[k].initialInvestment,
           c.products[k].annualReturnRate, c.products[k].investmentDate,
           c.at).value

\* The cost basis of one unit of a holding, in 1/CentScale cents: the
\* purchase price of a market-tracked holding, the initial investment of a
\* fixed-rate holding.
CostBasis(product) ==
  IF product.type = "YAHOO_FINANCE"
    THEN product.purchasePrice * CentScale
    ELSE product.initialInvestment

\* C19: the statistics carry totalValue, the sum of unit value x quantity,
\* and totalInvestment, the sum of cost basis x quantity, over all holdings,
\* each rounded to cents.
C19_TotalsOverAllHoldings ==
  (call.fn = "calculatePortfolioStatistics" /\ ~call.threw) =>
    LET n == Len(call.products)
    IN  /\ call.stats.productCount = n
        /\ call.stats.totalValue =
             RoundToCents(SumOver(
               [k \in 1 .. n |->
                  UnitValue(call, k) * CentScale * call.products[k].quantity],
               1, n))
        /\ call.stats.totalInvestment =
             RoundToCents(SumOver(
               [k \in 1 .. n |->
                  CostBasis(call.products[k]) * call.products[k].quantity],
               1, n))

\* C20: for a list of holdings that is not empty, the figures returned
\* satisfy totalReturn = totalValue - totalInvestment.
C20_ReturnIsValueMinusCost ==
  (call.fn = "calculatePortfolioStatistics" /\ ~call.threw
     /\ Len(call.products) > 0) =>
    call.stats.totalReturn = call.stats.totalValue - call.stats.totalInvestment

\* The totals the aggregator sums before rounding, in 1/(CentScale * QtyScale)
\* cents: the value and the cost basis of the holdings of a call.
UnroundedValue(c) ==
  LET n == Len(c.products)
  IN  SumOver([k \in 1 .. n |->
                 UnitValue(c, k) * CentScale * c.products[k].quantity], 1, n)

UnroundedInvestment(c) ==
  LET n == Len(c.products)
  IN  SumOver([k \in 1 .. n |->
                 calculateProductValue(c.products[k],
                   IF c.products[k].type = "YAHOO_FINANCE"
                     THEN c.currentPrices[k] ELSE NoPrice,
                   c.at).initialInvestment], 1, n)

-----------------------------------------------------------------------------
(* Claims about the profit-rate projection *)

\* The unrounded daily profit of a list of holdings, in 1/ProfitScale cents:
\* the sum over its fixed-rate holdings of cost basis x quantity x annual
\* rate / 365.
DailyTotal(products) ==
  LET n == Len(products)
  IN  SumOver([k \in 1 .. n |->
                 IF products[k].type = "CUSTOM"
                   THEN products[k].initialInvestment * products[k].quantity
                          * products[k].annualReturnRate
                   ELSE 0], 1, n)

\* C22: the projection depends only on the fixed-rate holdings of its input:
\* it is the projection of the input without its market-tracked holdings,
\* and an input without fixed-rate holdings yields daily 0, weekly 0,
\* monthly 0 and annual 0.
C22_OnlyFixedRateHoldings ==
  (call.fn = "calculateProfitRatesSync") =>
    /\ ~call.threw
    /\ call.rates = calculateProfitRatesSync(customProducts(call.products))
    /\ (Len(customProducts(call.products)) = 0 =>
          call.rates = [daily |-> 0, weekly |-> 0, monthly |-> 0, annual |-> 0])

\* C23: with D the unrounded daily total, the projection returns daily,
\* weekly, monthly and annual equal to D, 7 D, 30 D and 365 D, each rounded
\* to cents from the unrounded D.
C23_EachRoundedFromUnroundedSum ==
  (call.fn = "calculateProfitRatesSync") =>
    LET D == DailyTotal(call.products)
    IN  /\ call.rates.daily = MathRound(D, ProfitScale)
        /\ call.rates.weekly = MathRound(D * 7, ProfitScale)
        /\ call.rates.monthly = MathRound(D * 30, ProfitScale)
        /\ "annual" \in DOMAIN call.rates
        /\ call.rates.annual = MathRound(D, CentScale * QtyScale * 2)

\* C29: calculateProfitRates returns what calculateProfitRatesSync returns
\* for the same list of products, products recorded in USD included.
C29_AsyncEqualsSync ==
  (call.fn = "calculateProfitRates") =>
    /\ ~call.threw
    /\ call.rates = calculateProfitRatesSync(call.products)

-----------------------------------------------------------------------------
(* Claims about the series of the dashboard *)

\* C24: the daily-change series has one point less than the evolution
\* series (none when that is empty), the i-th being the difference of the
\* values of points i + 1 and i of the evolution series, tagged with the
\* date of point i + 1.
C24_ChangesOfEvolutionSeries ==
  (call.fn = "DashboardPage") =>
    LET ev == call.evolutionData
        N == Len(ev)
    IN  /\ Len(call.dailyChanges) = (IF N = 0 THEN 0 ELSE N - 1)
        /\ \A i \in 1 .. N - 1 :
             /\ call.dailyChanges[i].change = ev[i + 1].value - ev[i].value
             /\ call.dailyChanges[i].date = ev[i + 1].date

\* The keys of the months in which the snapshots fetched fall.
MonthsOf(snaps) == {monthKey(snaps[i].date) : i \in 1 .. Len(snaps)}

\* C25: the monthly-wealth series has exactly one point for each (year,
\* month) holding a snapshot and none for another, the value of a point is
\* that of the latest-dated snapshot of its month, and the points are in
\* ascending order of (year, month).
C25_MonthlyWealth ==
  (call.fn = "DashboardPage") =>
    LET mw == call.monthlyWealthData
        snaps == call.snapshots
    IN  /\ {mw[i].month : i \in 1 .. Len(mw)} = MonthsOf(snaps)
        /\ Len(mw) = Cardinality(MonthsOf(snaps))
        /\ \A i \in 1 .. Len(mw) :
             \E k \in 1 .. Len(snaps) :
               /\ monthKey(snaps[k].date) = mw[i].month
               /\ snaps[k].value = mw[i].value
               /\ \A j \in 1 .. Len(snaps) :
                    monthKey(snaps[j].date) = mw[i].month =>
                      snaps[j].date <= snaps[k].date
        /\ \A i \in 1 .. Len(mw) - 1 : KeyBefore(mw[i].month, mw[i + 1].month)

\* Snapshots of two years were fetched, a month among them holding two
\* snapshots of different values, and the series has a point for each month.
C25_Witness ==
  /\ call.fn = "DashboardPage"
  /\ Len(call.monthlyWealthData) >= 3
  /\ \E i, j \in 1 .. Len(call.snapshots) :
       /\ i < j
       /\ monthKey(call.snapshots[i].date) = monthKey(call.snapshots[j].date)
       /\ call.snapshots[i].value # call.snapshots[j].value
  /\ call.monthlyWealthData[1].month[1] # call.monthlyWealthData[3].month[1]

-----------------------------------------------------------------------------
(* Claims about the rounding and the fetches of a conversion *)

Conversions == {"convertToEur", "convertToEurHistorical"}

\* The rate a conversion applies, in hundredths: the historical rate when it
\* was found, else the current rate when that was found, else 0.92.
RateUsed(c) ==
  IF c.fn = "convertToEurHistorical" /\ RateFound(c.hist) THEN c.hist.eur
  ELSE IF RateFound(c.cur) THEN c.cur.eur
  ELSE 92

\* n / d rounded to the nearest integer, a tie going away from zero.
RoundHalfAwayFromZero(n, d) ==
  IF n >= 0 THEN (2 * n + d) \div (2 * d) ELSE -((2 * (-n) + d) \div (2 * d))

\* C26: a conversion returns amount x rate rounded to cents, a tie on the
\* half cent going away from zero for positive and negative amounts alike,
\* and 0 converts to 0.
C26_RoundsHalfAwayFromZero ==
  (call.fn \in Conversions) =>
    /\ ~call.threw
    /\ call.amount = RoundHalfAwayFromZero(call.usdAmount * RateUsed(call), 100)
    /\ call.usdAmount = 0 => call.amount = 0

\* The number of fetches of an endpoint among the fetches of a call.
Fetches(calls, endpoint) ==
  Cardinality({i \in 1 .. Len(calls) : calls[i] = endpoint})

\* C27: no conversion retries a fetch: convertToEur fetches the current rate
\* exactly once; convertToEurHistorical fetches the historical rate exactly
\* once and the current rate at most once, whatever the fetches answer.
C27_NoRetry ==
  /\ call.fn = "convertToEur" =>
       /\ Fetches(call.calls, "latest") = 1
       /\ Len(call.calls) = 1
  /\ call.fn = "convertToEurHistorical" =>
       /\ Fetches(call.calls, "history") = 1
       /\ Fetches(call.calls, "latest") <= 1
       /\ Len(call.calls) <= 2

\* Both endpoints threw: each was fetched once, and the conversion went on
\* with 0.92.
C27_Witness ==
  /\ call.fn = "convertToEurHistorical"
  /\ call.hist.kind = "throws" /\ call.cur.kind = "throws"
  /\ call.calls = <<"history", "latest">>
  /\ call.usdAmount = 10000 /\ call.amount = 9200

-----------------------------------------------------------------------------
(* Claims about the password protection *)

\* A password submitted so far verifies against the configured PASSWORD.
VerifiedOnce ==
  \E i \in 1 .. Len(submitted) :
    ~IsBlank(submitted[i]) /\ password # "" /\ submitted[i] = password

\* C28: the cookie is set only by an authenticateWithPassword call whose
\* password verifies against the configured PASSWORD; while only empty or
\* wrong passwords have been submitted no cookie has been set,
\* isAuthenticated is false and a guarded page redirects to /auth; while
\* PASSWORD is not configured verifyPassword and isAuthenticated are false
\* for every input.
C28_CookieOnlyByVerifiedPassword ==
  /\ call.fn \in {"authenticateWithPassword", "AuthGuard"} =>
       /\ (call.cookieSet \/ cookie # call.cookieBefore) =>
            /\ call.fn = "authenticateWithPassword"
            /\ ~IsBlank(call.password)
            /\ password # "" /\ call.password = password
            /\ cookie = Cookie(generateAuthToken(password))
       /\ ~VerifiedOnce =>
            /\ ~call.cookieSet
            /\ ~isAuthenticated(password, cookie)
            /\ call.fn = "AuthGuard" =>
                 /\ ~call.rendered
                 /\ call.redirect = "/auth"
  /\ password = "" =>
       /\ \A pw \in Passwords : ~verifyPassword(pw, password)
       /\ \A c \in ForeignCookies \cup {cookie} : ~isAuthenticated(password, c)

\* After a blank and a wrong password, a guarded page requested with a
\* foreign cookie was redirected to /auth.
C28_Witness ==
  /\ call.fn = "AuthGuard"
  /\ password = "hunter2"
  /\ submitted = <<" ", "wrong">>
  /\ cookie.present
  /\ call.redirect = "/auth" /\ ~call.rendered

-----------------------------------------------------------------------------
(* Claims about the useYahooFinance hook *)

\* The call awaits fetch or response.json().
InFlight(c) == fetches[c].pc \in {"fetch", "json"}

\* C30: loading is true whenever a fetchQuote call with a symbol that is not
\* empty is in flight, and false once every call has completed.
C30_LoadingWhileInFlight ==
  /\ (\E c \in 1 .. NumFetches : InFlight(c)) => loading
  /\ (\A c \in 1 .. NumFetches : ~InFlight(c)) => ~loading

====
